---- MODULE Spec2Model ----
(***************************************************************************)
(* A model of xwiilua.c, the Lua binding of libxwiimote, and of the        *)
(* libxwiimote transport it drives.  The session table devh, the open /    *)
(* close lifecycle, the poll-and-dispatch loop and the motion accessors    *)
(* are translated from the C source; the transport (device enumeration,    *)
(* interface objects, their event queues) is the environment.              *)
(***************************************************************************)
EXTENDS Integers, Sequences, FiniteSets, TLC

---------------------------------------------------------------------------
(* Bounds of the model *)

\* number of distinct device identifiers the environment can enumerate
MaxDevs == 2
\* number of interface objects the transport can hold allocated at once
MaxIface == 2
\* longest event queue the environment builds up on one interface
MaxQueue == 2
\* number of events the environment emits in one run
MaxEvents == 2
\* number of distinct motion samples
MaxSample == 2

---------------------------------------------------------------------------
(* Program constants *)

\* #define NDEV 10
NDEV == 10

\* the handle arguments the host passes: below 1, the indices of devices
\* that can be enumerated, and above NDEV
Nums == (0..MaxDevs) \cup {NDEV + 1}

\* device identifiers (paths); 0 stands for a NULL path
Paths == 1..MaxDevs

\* interface object identifiers (pointers); 0 stands for NULL
IfaceIds == 1..MaxIface

---------------------------------------------------------------------------
(* The transport's vocabulary (xwiimote.h as used by xwiilua.c) *)

\* enum xwii_iface_type: the bit of each interface
XWII_IFACE ==
  [ CORE |-> 1, ACCEL |-> 2, IR |-> 4, MOTION_PLUS |-> 256, NUNCHUK |-> 512,
    CLASSIC_CONTROLLER |-> 1024, BALANCE_BOARD |-> 2048,
    PRO_CONTROLLER |-> 4096, DRUMS |-> 8192, GUITAR |-> 16384 ]

Interfaces == DOMAIN XWII_IFACE

RECURSIVE Mask(_)
\* the bitmask of a set of interfaces, as xwii_iface_available returns it
Mask(S) ==
  IF S = {} THEN 0
  ELSE LET f == CHOOSE g \in S : TRUE IN XWII_IFACE[f] + Mask(S \ {f})

\* enum xwii_event_types
XWII_EVENT ==
  [ KEY |-> 0, ACCEL |-> 1, IR |-> 2, BALANCE_BOARD |-> 3, MOTION_PLUS |-> 4,
    PRO_CONTROLLER_KEY |-> 5, PRO_CONTROLLER_MOVE |-> 6, WATCH |-> 7,
    CLASSIC_CONTROLLER_KEY |-> 8, CLASSIC_CONTROLLER_MOVE |-> 9,
    NUNCHUK_KEY |-> 10, NUNCHUK_MOVE |-> 11, DRUMS_KEY |-> 12,
    DRUMS_MOVE |-> 13, GUITAR_KEY |-> 14, GUITAR_MOVE |-> 15, GONE |-> 16 ]

\* the interface an event type is read from
EventIface ==
  [ KEY |-> "CORE", ACCEL |-> "ACCEL", IR |-> "IR",
    BALANCE_BOARD |-> "BALANCE_BOARD", MOTION_PLUS |-> "MOTION_PLUS",
    PRO_CONTROLLER_KEY |-> "PRO_CONTROLLER",
    PRO_CONTROLLER_MOVE |-> "PRO_CONTROLLER",
    CLASSIC_CONTROLLER_KEY |-> "CLASSIC_CONTROLLER",
    CLASSIC_CONTROLLER_MOVE |-> "CLASSIC_CONTROLLER",
    NUNCHUK_KEY |-> "NUNCHUK", NUNCHUK_MOVE |-> "NUNCHUK",
    DRUMS_KEY |-> "DRUMS", DRUMS_MOVE |-> "DRUMS",
    GUITAR_KEY |-> "GUITAR", GUITAR_MOVE |-> "GUITAR" ]

\* struct xwii_event_abs, zeroed
ZeroAbs == [x |-> 0, y |-> 0, z |-> 0]

\* event.v.abs of an event that carries no motion payload
ZeroPayload == [i \in 0..3 |-> ZeroAbs]

\* event.v.abs[0..3] of motion sample s: twelve pairwise distinct values
Payload(s) ==
  [i \in 0..3 |-> [x |-> 100 * s + 10 * i + 1,
                   y |-> 100 * s + 10 * i + 2,
                   z |-> 100 * s + 10 * i + 3]]

KeyTypes ==
  {"KEY", "CLASSIC_CONTROLLER_KEY", "PRO_CONTROLLER_KEY", "NUNCHUK_KEY",
   "DRUMS_KEY", "GUITAR_KEY"}

MoveTypes ==
  {"ACCEL", "IR", "BALANCE_BOARD", "CLASSIC_CONTROLLER_MOVE",
   "PRO_CONTROLLER_MOVE", "MOTION_PLUS", "NUNCHUK_MOVE", "DRUMS_MOVE",
   "GUITAR_MOVE"}

KeyEvent(t, c, s) == [type |-> t, code |-> c, state |-> s, abs |-> ZeroPayload]

MoveEvent(t, s) == [type |-> t, code |-> 0, state |-> 0, abs |-> Payload(s)]

PlainEvent(t) == [type |-> t, code |-> 0, state |-> 0, abs |-> ZeroPayload]

\* the events a device sends on its opened interfaces: a press and a release
\* of button A, a press of one button of each extension, and MaxSample
\* samples per motion type
DeviceEvents ==
  {KeyEvent("KEY", 4, s) : s \in {0, 1}}
    \cup {KeyEvent(t, 5, 1) : t \in KeyTypes \ {"KEY"}}
    \cup {MoveEvent(t, s) : t \in MoveTypes, s \in 1..MaxSample}

\* the interface sets of the device kinds: a Wii Remote, a Wii Remote Plus
\* with a Nunchuk, a Wii Remote with a Classic Controller or a Guitar, a
\* Balance Board, a Pro Controller
Profiles ==
  { {"CORE", "ACCEL", "IR"},
    {"CORE", "ACCEL", "IR", "MOTION_PLUS", "NUNCHUK"},
    {"CORE", "ACCEL", "IR", "CLASSIC_CONTROLLER"},
    {"CORE", "ACCEL", "IR", "GUITAR"},
    {"BALANCE_BOARD"},
    {"PRO_CONTROLLER"} }

---------------------------------------------------------------------------
(* State *)

VARIABLES
  connected,  \* the device identifiers the transport currently enumerates
  devkind,    \* the interfaces each device currently offers
  ifaces,     \* the transport's interface objects, by pointer
  devh,       \* static devhandle devh[NDEV], indexed 1..NDEV
  waiting,    \* the handle of the xwii_poll call blocked in poll(), or 0
  nEmitted,   \* number of events emitted so far
  last,       \* the call of the binding that is returning, or idle
  ret,        \* what that call returns to Lua
  pre,        \* the session table and the transport as that call found them
  leds,       \* the four LEDs of each device
  self_d,     \* self.d of the host's xwii object: its handle, or 0
  clock,      \* the object's clock is armed
  ticking,    \* the object is inside the loop of xwii:tick
  outlet      \* the last message the object sent to its first outlet

vars ==
  <<connected, devkind, ifaces, devh, waiting, nEmitted, last, ret, pre,
    leds, self_d, clock, ticking, outlet>>

\* the state of the host's xwii object
host == <<self_d, clock, ticking, outlet>>

\* what the environment owns, and what a call reports
env == <<connected, devkind, nEmitted>>
call == <<last, ret, pre>>

\* an interface object that is not allocated
FreeIface ==
  [live |-> FALSE, path |-> 0, opened |-> {}, watch |-> FALSE,
   queue |-> <<>>]

\* POLLIN, the events mask of the session's pollfd
POLLIN == 1

\* a slot of the zero-initialised static table
ZeroSlot ==
  [ iface |-> 0, fds_num |-> 0, fd |-> 0, events |-> 0,
    accel |-> ZeroAbs, motion |-> ZeroAbs,
    nunchuk_accel |-> ZeroAbs, nunchuk_stick |-> ZeroAbs,
    ir |-> [i \in 0..3 |-> ZeroAbs],
    pro |-> [i \in 0..1 |-> ZeroAbs],
    board |-> [i \in 0..3 |-> ZeroAbs] ]

\* Lua return values: nil, an integer, a table of integers, or nothing
Nil == [tag |-> "nil", val |-> <<>>]
Integer(v) == [tag |-> "integer", val |-> <<v>>]
Table(s) == [tag |-> "table", val |-> s]
Nothing == [tag |-> "none", val |-> <<>>]

\* the record of a step: the operation, its handle argument, its second
\* argument if it has one, the number of events a drain dispatched (of LEDs
\* xwii_set_leds wrote) and why it stopped
Op(name, num) ==
  [op |-> name, num |-> num, arg |-> 0, consumed |-> 0, why |-> ""]

Idle == Op("idle", 0)

NoPre == [devh |-> <<>>, ifaces |-> <<>>, leds |-> <<>>]

\* the state a call found
Snapshot == [devh |-> devh, ifaces |-> ifaces, leds |-> leds]

\* between two calls of the binding
AtRest == last = Idle /\ waiting = 0

Init ==
  /\ connected \in SUBSET {1}
  /\ devkind \in [Paths -> Profiles]
  /\ \A p \in Paths \ {1} : devkind[p] = {"CORE", "ACCEL", "IR"}
  /\ ifaces = [i \in IfaceIds |-> FreeIface]
  /\ devh = [n \in 1..NDEV |-> ZeroSlot]
  /\ waiting = 0
  /\ nEmitted = 0
  /\ last = Idle
  /\ ret = Nothing
  /\ pre = NoPre
  /\ leds = [p \in Paths |-> [i \in 1..4 |-> FALSE]]
  /\ self_d = 0
  /\ clock = FALSE
  /\ ticking = FALSE
  /\ outlet = Nothing

---------------------------------------------------------------------------
(* Device enumeration *)

RECURSIVE SortedSeq(_)
\* xwii_monitor_poll: the connected devices in enumeration order
SortedSeq(S) ==
  IF S = {} THEN <<>>
  ELSE LET m == CHOOSE a \in S : \A b \in S : a <= b
       IN <<m>> \o SortedSeq(S \ {m})

devlist == SortedSeq(connected)

\* get_dev that keeps the last enumerated entry when the list ends before
\* entry num
get_dev_last(num, monOk) ==
  IF monOk /\ num >= 1 /\ devlist # <<>>
  THEN devlist[IF num <= Len(devlist) THEN num ELSE Len(devlist)]
  ELSE 0

\* get_dev: the path of device num, or NULL (0) when the monitor cannot be
\* created or fewer than num devices are enumerated
get_dev(num, monOk) ==
  IF monOk /\ num \in 1..Len(devlist) THEN devlist[num] ELSE 0

\* xwii_iface_get_fd: the descriptor of an interface object
FdOf(i) == i + 2

\* the pointer xwii_iface_new returns: the first free object, 0 when none
NewIface ==
  IF \E i \in IfaceIds : ~ifaces[i].live
  THEN CHOOSE i \in IfaceIds :
         ~ifaces[i].live /\ \A j \in IfaceIds : ~ifaces[j].live => i <= j
  ELSE 0

IsOpen(num) == num >= 1 /\ num <= NDEV /\ devh[num].fds_num # 0

\* xwii_iface_opened of the interface object slot num points to
Opened(num) == ifaces[devh[num].iface].opened

\* xwii_iface_available: the interfaces the object's device offers now
Available(f) == IF f.path = 0 THEN {} ELSE devkind[f.path]

---------------------------------------------------------------------------
(* xwii_open, xwii_close, xwii_info *)

\* the slot of a session opened on interface object i: the four memsets of
\* l_xwii_open, the pollfd and the open flag
OpenedSlot(s, i) ==
  [s EXCEPT !.iface = i,
            !.accel = ZeroAbs, !.motion = ZeroAbs,
            !.nunchuk_accel = ZeroAbs, !.nunchuk_stick = ZeroAbs,
            !.fd = FdOf(i), !.events = POLLIN, !.fds_num = 1]

\* the already-open check left out
AlreadyOpen_never(num) == FALSE

\* if (devh[num-1].fds_num): the device is already open
AlreadyOpen(num) == devh[num].fds_num # 0

\* the transport calls of l_xwii_open that can fail
OpenFailures == {"none", "monitor", "new", "open"}

\* l_xwii_open without the xwii_iface_unref after a failed xwii_iface_open
l_xwii_open_nounref(num, fails, watchOk) ==
  /\ AtRest
  /\ UNCHANGED <<leds, host>>
  /\ last' = Op("open", num)
  /\ pre' = Snapshot
  /\ UNCHANGED <<env, waiting>>
  /\ LET path == get_dev(num, fails # "monitor")
         i == NewIface
     IN IF num < 1 \/ num > NDEV \/ path = 0
        THEN ret' = Integer(0) /\ UNCHANGED <<devh, ifaces>>
        ELSE IF AlreadyOpen(num)
        THEN ret' = Integer(0) /\ UNCHANGED <<devh, ifaces>>
        ELSE IF fails = "new" \/ i = 0
        THEN ret' = Integer(0) /\ UNCHANGED <<devh, ifaces>>
        ELSE IF fails = "open"
        THEN /\ ret' = Integer(0)
             /\ devh' = [devh EXCEPT ![num].iface = i]
             /\ ifaces' = [ifaces EXCEPT ![i] =
                   [live |-> TRUE, path |-> path, opened |-> {},
                    watch |-> FALSE, queue |-> <<>>]]
        ELSE /\ ret' = Integer(num)
             /\ ifaces' = [ifaces EXCEPT ![i] =
                   [live |-> TRUE, path |-> path, opened |-> devkind[path],
                    watch |-> watchOk, queue |-> <<>>]]
             /\ devh' = [devh EXCEPT ![num] = OpenedSlot(@, i)]

\* l_xwii_open(num); fails names the transport call that fails
\* (xwii_monitor_new, xwii_iface_new, xwii_iface_open) and watchOk is the
\* outcome of xwii_iface_watch
l_xwii_open(num, fails, watchOk) ==
  /\ AtRest
  /\ UNCHANGED <<leds, host>>
  /\ last' = Op("open", num)
  /\ pre' = Snapshot
  /\ UNCHANGED <<env, waiting>>
  /\ LET path == get_dev(num, fails # "monitor")
         i == NewIface
     IN IF num < 1 \/ num > NDEV \/ path = 0
        THEN ret' = Integer(0) /\ UNCHANGED <<devh, ifaces>>
        ELSE IF AlreadyOpen(num)
        THEN ret' = Integer(0) /\ UNCHANGED <<devh, ifaces>>
        ELSE IF fails = "new" \/ i = 0
        THEN ret' = Integer(0) /\ UNCHANGED <<devh, ifaces>>
        ELSE IF fails = "open"
        THEN /\ ret' = Integer(0)
             /\ devh' = [devh EXCEPT ![num].iface = i]
             /\ UNCHANGED ifaces
        ELSE /\ ret' = Integer(num)
             /\ ifaces' = [ifaces EXCEPT ![i] =
                   [live |-> TRUE, path |-> path, opened |-> devkind[path],
                    watch |-> watchOk, queue |-> <<>>]]
             /\ devh' = [devh EXCEPT ![num] = OpenedSlot(@, i)]

\* close that leaves the open flag set
ClosedSlot_flagkept(s) == s

\* devh[num-1].fds_num = 0
ClosedSlot(s) == [s EXCEPT !.fds_num = 0]

\* a close that marks every slot closed
l_xwii_close_all(num) ==
  /\ AtRest
  /\ UNCHANGED <<leds, host>>
  /\ last' = Op("close", num)
  /\ pre' = Snapshot
  /\ ret' = Nothing
  /\ UNCHANGED <<env, waiting>>
  /\ IF IsOpen(num)
     THEN /\ ifaces' = [ifaces EXCEPT ![devh[num].iface] = FreeIface]
          /\ devh' = [n \in 1..NDEV |-> ClosedSlot(devh[n])]
     ELSE UNCHANGED <<devh, ifaces>>

\* l_xwii_close(num)
l_xwii_close(num) ==
  /\ AtRest
  /\ UNCHANGED <<leds, host>>
  /\ last' = Op("close", num)
  /\ pre' = Snapshot
  /\ ret' = Nothing
  /\ UNCHANGED <<env, waiting>>
  /\ IF IsOpen(num)
     THEN /\ ifaces' = [ifaces EXCEPT ![devh[num].iface] = FreeIface]
          /\ devh' = [devh EXCEPT ![num] = ClosedSlot(@)]
     ELSE UNCHANGED <<devh, ifaces>>

\* the value l_xwii_info(num) pushes
xwii_info(num) ==
  IF IsOpen(num)
  THEN Integer(Mask(Available(ifaces[devh[num].iface])))
  ELSE Integer(0)

---------------------------------------------------------------------------
(* xwii_set_leds *)

\* the bitmasks the host passes to xwii_set_leds
LedMasks == {0, 5, 10, 15}

\* !!(mask & (1<<i))
Bit(mask, i) == (mask \div (2 ^ i)) % 2 = 1

\* the LEDs l of a device after the first n iterations of the loop of
\* l_xwii_set_leds wrote them from mask
LedsWritten(l, mask, n) ==
  [i \in 1..4 |-> IF i <= n THEN Bit(mask, i - 1) ELSE l[i]]

\* l_xwii_set_leds(num, mask); the first failAt calls of xwii_iface_set_led
\* succeed and the next one, if there is one, fails; on an interface object
\* whose device is gone the first one fails
l_xwii_set_leds(num, mask, failAt) ==
  /\ AtRest
  /\ UNCHANGED <<env, ifaces, devh, waiting, host>>
  /\ pre' = Snapshot
  /\ ret' = Nothing
  /\ IF IsOpen(num)
     THEN LET f == ifaces[devh[num].iface]
              n == IF f.path = 0 THEN 0 ELSE failAt
          IN /\ leds' = IF n = 0 THEN leds
                        ELSE [leds EXCEPT ![f.path] = LedsWritten(@, mask, n)]
             /\ last' = [Op("set_leds", num) EXCEPT
                           !.arg = mask, !.consumed = n,
                           !.why = IF n < 4 THEN "fail" ELSE "ok"]
     ELSE /\ UNCHANGED leds
          /\ last' = [Op("set_leds", num) EXCEPT !.arg = mask,
                                                  !.why = "closed"]

---------------------------------------------------------------------------
(* xwii_get_leds *)

RECURSIVE MaskRead(_, _)
\* the mask after the first n iterations of the loop of l_xwii_get_leds
\* read the LEDs l: if (!ret && flag) mask |= 1<<i
MaskRead(l, n) ==
  IF n = 0 THEN 0
  ELSE MaskRead(l, n - 1) + (IF l[n] THEN 2 ^ (n - 1) ELSE 0)

\* the result that is the mask of the LEDs read before the failure
LedsResult_partial(l, n) == Integer(MaskRead(l, n))

\* what l_xwii_get_leds pushes after n reads succeeded: nil when a read
\* failed, the mask of the four LEDs otherwise
LedsResult(l, n) == IF n < 4 THEN Nil ELSE Integer(MaskRead(l, 4))

\* l_xwii_get_leds(num); the first failAt calls of xwii_iface_get_led
\* succeed and the next one, if there is one, fails; on an interface object
\* whose device is gone the first one fails
l_xwii_get_leds(num, failAt) ==
  /\ AtRest
  /\ UNCHANGED <<env, ifaces, devh, waiting, leds, host>>
  /\ pre' = Snapshot
  /\ IF IsOpen(num)
     THEN LET f == ifaces[devh[num].iface]
              n == IF f.path = 0 THEN 0 ELSE failAt
              l == IF f.path = 0 THEN [i \in 1..4 |-> FALSE]
                   ELSE leds[f.path]
          IN /\ ret' = LedsResult(l, n)
             /\ last' = [Op("get_leds", num) EXCEPT
                           !.consumed = IF n < 4 THEN n + 1 ELSE 4,
                           !.why = IF n < 4 THEN "fail" ELSE "ok"]
     ELSE /\ ret' = Integer(0)
          /\ last' = [Op("get_leds", num) EXCEPT !.why = "closed"]

---------------------------------------------------------------------------
(* xwii_poll *)

\* the outcome of one drain: the slot, the interface object, the value
\* returned to Lua, the number of events dispatched, and why it stopped
Drained(s, f, r, k, why) ==
  [slot |-> s, iface |-> f, ret |-> r, consumed |-> k, why |-> why]

\* the GONE case that clears the pollfd and leaves the open flag set
GoneSlot_flagkept(s) == [s EXCEPT !.fd = -1, !.events = 0]

\* the GONE case: the pollfd is cleared and the slot marked closed
GoneSlot(s) == [s EXCEPT !.fd = -1, !.events = 0, !.fds_num = 0]

\* the motion cases that store nothing
StoreMotion_skip(s, ev) == s

\* the motion cases of the switch: the slot after event ev is stored
StoreMotion(s, ev) ==
  CASE ev.type = "ACCEL" -> [s EXCEPT !.accel = ev.abs[0]]
    [] ev.type = "IR" -> [s EXCEPT !.ir = [i \in 0..3 |-> ev.abs[i]]]
    [] ev.type = "BALANCE_BOARD" ->
         [s EXCEPT !.board = [i \in 0..3 |-> ev.abs[i]]]
    [] ev.type \in {"CLASSIC_CONTROLLER_MOVE", "PRO_CONTROLLER_MOVE"} ->
         [s EXCEPT !.pro = [i \in 0..1 |-> ev.abs[i]]]
    [] ev.type = "MOTION_PLUS" -> [s EXCEPT !.motion = ev.abs[0]]
    [] ev.type = "NUNCHUK_MOVE" ->
         [s EXCEPT !.nunchuk_accel = ev.abs[1], !.nunchuk_stick = ev.abs[0]]
    [] OTHER -> s

\* the key table with its two entries exchanged
KeyTable_swapped(ev) == Table(<<ev.state, ev.code>>)

\* the key case: the table {code, state} returned to Lua
KeyTable(ev) == Table(<<ev.code, ev.state>>)

\* the WATCH case that throws the pending events away
Rewatch_flush(f, hotplugOk) == [f EXCEPT !.queue = <<>>]

\* the WATCH case: xwii_iface_open(iface, xwii_iface_available(iface))
Rewatch(f, hotplugOk) ==
  IF hotplugOk THEN [f EXCEPT !.opened = @ \cup Available(f)] ELSE f

RECURSIVE Drain(_, _, _, _, _)
\* the while (1) loop of l_xwii_poll on slot s and interface object f after
\* k dispatches; dispatch number errAt + 1 fails with a hard error, and
\* hotplugOk is the outcome of the re-open on a WATCH event
Drain(s, f, k, errAt, hotplugOk) ==
  IF k = errAt THEN Drained(s, f, Nil, k, "error")
  ELSE IF f.queue = <<>> THEN Drained(s, f, Nil, k, "empty")
  ELSE LET ev == Head(f.queue)
           g == [f EXCEPT !.queue = Tail(@)]
       IN CASE ev.type \in KeyTypes ->
                 Drained(s, g, KeyTable(ev), k + 1, "key")
            [] ev.type = "WATCH" ->
                 Drain(s, Rewatch(g, hotplugOk), k + 1, errAt, hotplugOk)
            [] ev.type = "GONE" ->
                 Drained(GoneSlot(s), g, Integer(XWII_EVENT.GONE), k + 1,
                         "gone")
            [] OTHER -> Drain(StoreMotion(s, ev), g, k + 1, errAt, hotplugOk)

\* l_xwii_poll(num) that clears the session table on a handle that is not
\* open
PollCall_clears(num) ==
  /\ AtRest
  /\ UNCHANGED <<leds, host>>
  /\ UNCHANGED <<env, ifaces>>
  /\ IF IsOpen(num)
     THEN waiting' = num /\ UNCHANGED <<call, devh>>
     ELSE /\ waiting' = 0
          /\ devh' = [n \in 1..NDEV |-> ZeroSlot]
          /\ last' = [Op("poll", num) EXCEPT !.why = "closed"]
          /\ pre' = Snapshot
          /\ ret' = Nil

\* l_xwii_poll(num) up to the wait: a closed or out-of-range handle returns
\* nil at once, an open one blocks in poll() on the session's descriptor
PollCall(num) ==
  /\ AtRest
  /\ UNCHANGED <<leds, host>>
  /\ UNCHANGED <<env, ifaces, devh>>
  /\ IF IsOpen(num)
     THEN waiting' = num /\ UNCHANGED call
     ELSE /\ waiting' = 0
          /\ last' = [Op("poll", num) EXCEPT !.why = "closed"]
          /\ pre' = Snapshot
          /\ ret' = Nil

\* poll() returns with the descriptor readable: the drain
PollReady(num, errAt, hotplugOk) ==
  /\ waiting = num /\ num # 0
  /\ UNCHANGED <<leds, host>>
  /\ ifaces[devh[num].iface].queue # <<>>
  /\ LET d == Drain(devh[num], ifaces[devh[num].iface], 0, errAt, hotplugOk)
     IN /\ devh' = [devh EXCEPT ![num] = d.slot]
        /\ ifaces' = [ifaces EXCEPT ![devh[num].iface] = d.iface]
        /\ ret' = d.ret
        /\ last' = [Op("poll", num) EXCEPT !.consumed = d.consumed,
                                            !.why = d.why]
  /\ pre' = Snapshot
  /\ waiting' = 0
  /\ UNCHANGED env

\* poll() fails with EINTR: nil is returned
PollInterrupted(num) ==
  /\ waiting = num /\ num # 0
  /\ UNCHANGED <<leds, host>>
  /\ waiting' = 0
  /\ ret' = Nil
  /\ last' = [Op("poll", num) EXCEPT !.why = "eintr"]
  /\ pre' = Snapshot
  /\ UNCHANGED <<env, ifaces, devh>>

\* a failed poll() that marks the slot closed
PollWaitFail_closes(num) ==
  /\ waiting = num /\ num # 0
  /\ UNCHANGED <<leds, host>>
  /\ waiting' = 0
  /\ ret' = Nil
  /\ last' = [Op("poll", num) EXCEPT !.why = "waitfail"]
  /\ pre' = Snapshot
  /\ devh' = [devh EXCEPT ![num].fds_num = 0]
  /\ UNCHANGED <<env, ifaces>>

\* poll() fails with another errno: logged, nil is returned
PollWaitFail(num) ==
  /\ waiting = num /\ num # 0
  /\ UNCHANGED <<leds, host>>
  /\ waiting' = 0
  /\ ret' = Nil
  /\ last' = [Op("poll", num) EXCEPT !.why = "waitfail"]
  /\ pre' = Snapshot
  /\ UNCHANGED <<env, ifaces, devh>>

---------------------------------------------------------------------------
(* The motion accessors *)

push_xyz(abs) == Table(<<abs.x, abs.y, abs.z>>)

push_xy(abs) == Table(<<abs.x, abs.y>>)

xwii_accel(num) ==
  IF IsOpen(num) /\ "CORE" \in Opened(num)
  THEN push_xyz(devh[num].accel) ELSE Nil

xwii_ir(num) ==
  IF IsOpen(num) /\ "CORE" \in Opened(num)
  THEN Table(<<devh[num].ir[0].x, devh[num].ir[0].y,
               devh[num].ir[1].x, devh[num].ir[1].y,
               devh[num].ir[2].x, devh[num].ir[2].y,
               devh[num].ir[3].x, devh[num].ir[3].y>>)
  ELSE Nil

xwii_motion_plus(num) ==
  IF IsOpen(num) /\ "MOTION_PLUS" \in Opened(num)
  THEN push_xyz(devh[num].motion) ELSE Nil

xwii_nunchuk_accel(num) ==
  IF IsOpen(num) /\ "NUNCHUK" \in Opened(num)
  THEN push_xyz(devh[num].nunchuk_accel) ELSE Nil

xwii_nunchuk_stick(num) ==
  IF IsOpen(num) /\ "NUNCHUK" \in Opened(num)
  THEN push_xy(devh[num].nunchuk_stick) ELSE Nil

xwii_pro_stick(num) ==
  IF IsOpen(num) /\ "CORE" \in Opened(num)
  THEN Table(<<devh[num].pro[0].x, devh[num].pro[0].y,
               devh[num].pro[1].x, devh[num].pro[1].y>>)
  ELSE Nil

xwii_board(num) ==
  IF IsOpen(num) /\ "CORE" \in Opened(num)
  THEN Table(<<devh[num].board[0].x, devh[num].board[1].x,
               devh[num].board[2].x, devh[num].board[3].x>>)
  ELSE Nil

Accessors ==
  {"accel", "ir", "motion_plus", "nunchuk_accel", "nunchuk_stick",
   "pro_stick", "board"}

\* the value accessor a returns for handle num
Access(a, num) ==
  CASE a = "accel" -> xwii_accel(num)
    [] a = "ir" -> xwii_ir(num)
    [] a = "motion_plus" -> xwii_motion_plus(num)
    [] a = "nunchuk_accel" -> xwii_nunchuk_accel(num)
    [] a = "nunchuk_stick" -> xwii_nunchuk_stick(num)
    [] a = "pro_stick" -> xwii_pro_stick(num)
    [] a = "board" -> xwii_board(num)

\* the call returns: Lua takes the result
Return ==
  /\ last # Idle
  /\ UNCHANGED <<leds, host>>
  /\ last' = Idle
  /\ ret' = Nothing
  /\ pre' = NoPre
  /\ UNCHANGED <<env, ifaces, devh, waiting>>

---------------------------------------------------------------------------
(* The host's xwii object (xwii.pd_lua) *)

\* self.dev, the device number of the object: 1 by default
self_dev == 1

\* the object is between two messages
HostIdle == AtRest /\ ~ticking

\* xwii:in_1_bang up to the return of xwii_open
in_1_bang(fails, watchOk) ==
  /\ HostIdle
  /\ l_xwii_open(self_dev, fails, watchOk)

\* xwii:in_1_float(f): a nonzero f opens like a bang, a zero unsets the
\* clock and closes; up to the return of xwii_open or xwii_close
in_1_float(f, fails, watchOk) ==
  /\ HostIdle
  /\ IF f # 0
     THEN l_xwii_open(self_dev, fails, watchOk)
     ELSE fails = "none" /\ watchOk /\ l_xwii_close(self_d)

\* self.d = xw.xwii_open(self.dev), and the handler enters xwii:tick
OpenReturns ==
  /\ last.op = "open"
  /\ self_d' = ret.val[1]
  /\ ticking' = TRUE
  /\ last' = Idle /\ ret' = Nothing /\ pre' = NoPre
  /\ UNCHANGED <<env, ifaces, devh, waiting, leds, clock, outlet>>

\* the rest of in_1_float(0): the clock is unset and self.d = 0
CloseReturns ==
  /\ last.op = "close"
  /\ clock' = FALSE
  /\ self_d' = 0
  /\ last' = Idle /\ ret' = Nothing /\ pre' = NoPre
  /\ UNCHANGED <<env, ifaces, devh, waiting, leds, ticking, outlet>>

\* the clock fires and calls xwii:tick
ClockFires ==
  /\ HostIdle
  /\ clock
  /\ clock' = FALSE
  /\ ticking' = TRUE
  /\ UNCHANGED <<env, ifaces, devh, waiting, call, leds, self_d, outlet>>

\* the loop of xwii:tick: while self.d > 0 do ev = xw.xwii_poll(self.d)
TickPoll ==
  /\ ticking
  /\ self_d > 0
  /\ PollCall(self_d)

\* the poll() of that call returns
TickPollReady ==
  \E errAt \in 0..(MaxQueue + 2), hotplugOk \in BOOLEAN :
    PollReady(self_d, errAt, hotplugOk)

TickPollInterrupted == PollInterrupted(self_d)

TickPollWaitFail == PollWaitFail(self_d)

\* the loop of xwii:tick after the poll: a result that is not nil goes to
\* the first outlet and the loop goes on; nil leaves the loop, and the clock
\* is set
PollReturns ==
  /\ last.op = "poll"
  /\ IF ret # Nil
     THEN outlet' = ret /\ UNCHANGED <<ticking, clock>>
     ELSE ticking' = FALSE /\ clock' = TRUE /\ UNCHANGED outlet
  /\ last' = Idle /\ ret' = Nothing /\ pre' = NoPre
  /\ UNCHANGED <<env, ifaces, devh, waiting, leds, self_d>>

\* xwii:tick with self.d = 0: the loop is skipped and the clock is set
TickEnd ==
  /\ ticking /\ AtRest
  /\ self_d <= 0
  /\ ticking' = FALSE
  /\ clock' = TRUE
  /\ UNCHANGED <<env, ifaces, devh, waiting, call, leds, self_d, outlet>>

\* xwii:in_1_board: the list the "board" message sends to the second
\* outlet, nil when it sends nothing
in_1_board == xwii_pro_stick(self_d)

---------------------------------------------------------------------------
(* The environment: devices and the transport *)

\* a device is paired and enumerated
Plug(p) ==
  /\ last = Idle
  /\ UNCHANGED <<leds, host>>
  /\ p \notin connected
  /\ connected' = connected \cup {p}
  /\ UNCHANGED <<devkind, ifaces, devh, waiting, nEmitted, call>>

\* a device goes away: it is no longer enumerated, the objects opened on it
\* lose their device and those that watch for hotplug get a GONE event
Unplug(p) ==
  /\ last = Idle
  /\ UNCHANGED <<leds, host>>
  /\ p \in connected
  /\ connected' = connected \ {p}
  /\ ifaces' = [i \in IfaceIds |->
       IF ifaces[i].live /\ ifaces[i].path = p
       THEN [ifaces[i] EXCEPT
               !.path = 0,
               !.queue = IF ifaces[i].watch
                         THEN Append(@, PlainEvent("GONE")) ELSE @]
       ELSE ifaces[i]]
  /\ UNCHANGED <<devkind, devh, waiting, nEmitted, call>>

\* an extension is plugged into or pulled from a Wii Remote: the interfaces
\* that vanished are closed, the watching objects get a WATCH event
Hotplug(p, k) ==
  /\ last = Idle
  /\ UNCHANGED <<leds, host>>
  /\ p \in connected
  /\ k # devkind[p]
  /\ "CORE" \in k /\ "CORE" \in devkind[p]
  /\ nEmitted < MaxEvents
  /\ \A i \in IfaceIds : Len(ifaces[i].queue) < MaxQueue
  /\ nEmitted' = nEmitted + 1
  /\ devkind' = [devkind EXCEPT ![p] = k]
  /\ ifaces' = [i \in IfaceIds |->
       IF ifaces[i].live /\ ifaces[i].path = p
       THEN [ifaces[i] EXCEPT
               !.opened = @ \cap k,
               !.queue = IF ifaces[i].watch
                         THEN Append(@, PlainEvent("WATCH")) ELSE @]
       ELSE ifaces[i]]
  /\ UNCHANGED <<connected, devh, waiting, call>>

\* the device of object i sends event ev on one of its opened interfaces
Emit(i, ev) ==
  /\ last = Idle
  /\ UNCHANGED <<leds, host>>
  /\ ifaces[i].live /\ ifaces[i].path # 0
  /\ EventIface[ev.type] \in ifaces[i].opened
  /\ Len(ifaces[i].queue) < MaxQueue
  /\ nEmitted < MaxEvents
  /\ nEmitted' = nEmitted + 1
  /\ ifaces' = [ifaces EXCEPT ![i].queue = Append(@, ev)]
  /\ UNCHANGED <<connected, devkind, devh, waiting, call>>

---------------------------------------------------------------------------
(* The specifications *)

\* the calls of the binding that change the state
Calls ==
  \/ \E num \in Nums, fails \in OpenFailures, watchOk \in BOOLEAN :
       l_xwii_open(num, fails, watchOk)
  \/ \E num \in Nums : l_xwii_close(num)
  \/ \E num \in Nums : PollCall(num)
  \/ \E num \in Nums, errAt \in 0..(MaxQueue + 2), hotplugOk \in BOOLEAN :
       PollReady(num, errAt, hotplugOk)
  \/ \E num \in Nums : PollInterrupted(num)
  \/ \E num \in Nums : PollWaitFail(num)
  \/ Return

\* the environment of one device, of any kind, that comes and goes, has
\* extensions plugged and pulled, and sends every event of DeviceEvents
Next ==
  \/ Calls
  \/ Plug(1)
  \/ Unplug(1)
  \/ \E k \in Profiles : Hotplug(1, k)
  \/ \E i \in IfaceIds, ev \in DeviceEvents : Emit(i, ev)

Spec == Init /\ [][Next]_vars

\* the steps the binding takes by itself: a poll() whose descriptor is
\* readable returns and the drain runs, and a call that has its result
\* returns to Lua; signals, failures and the device are left unconstrained
FairSpec ==
  /\ Spec
  /\ WF_vars(\E num \in Nums, errAt \in 0..(MaxQueue + 2),
                hotplugOk \in BOOLEAN : PollReady(num, errAt, hotplugOk))
  /\ WF_vars(Return)

\* the LEDs: a host that opens and closes a device, sets and reads its LEDs while
\* the device comes and goes
LedNext ==
  \/ \E num \in Nums, fails \in OpenFailures, watchOk \in BOOLEAN :
       l_xwii_open(num, fails, watchOk)
  \/ \E num \in Nums : l_xwii_close(num)
  \/ \E num \in Nums, mask \in LedMasks, failAt \in 0..4 :
       l_xwii_set_leds(num, mask, failAt)
  \/ \E num \in Nums, failAt \in 0..4 : l_xwii_get_leds(num, failAt)
  \/ Return
  \/ Plug(1)
  \/ Unplug(1)

LedSpec == Init /\ [][LedNext]_vars

\* the host's xwii object on one device of any kind: it takes bang, nonzero
\* and zero messages and its clock fires, while the device comes and goes,
\* has extensions plugged and pulled and sends events
HostNext ==
  \/ \E fails \in OpenFailures, watchOk \in BOOLEAN : in_1_bang(fails, watchOk)
  \/ \E f \in {0, 1}, fails \in OpenFailures, watchOk \in BOOLEAN :
       in_1_float(f, fails, watchOk)
  \/ OpenReturns
  \/ CloseReturns
  \/ ClockFires
  \/ TickPoll
  \/ TickPollReady
  \/ TickPollInterrupted
  \/ TickPollWaitFail
  \/ PollReturns
  \/ TickEnd
  \/ Plug(1)
  \/ Unplug(1)
  \/ \E k \in Profiles : Hotplug(1, k)
  \/ \E i \in IfaceIds, ev \in DeviceEvents : Emit(i, ev)

HostSpec == Init /\ [][HostNext]_vars

\* several devices that come and go in any order while the host opens,
\* closes and polls; the devices send nothing but the GONE event
PairNext ==
  \/ Calls
  \/ \E p \in Paths : Plug(p)
  \/ \E p \in Paths : Unplug(p)

PairSpec == Init /\ [][PairNext]_vars

\* the events of two Wii Remotes: an accelerometer sample and a press of
\* button A
FrameEvents == {MoveEvent("ACCEL", 1), KeyEvent("KEY", 4, 1)}

FrameInit == Init /\ devkind[1] = {"CORE", "ACCEL", "IR"}

\* several Wii Remotes that come and go and send events while the host
\* opens, closes and polls them
FrameNext ==
  \/ Calls
  \/ \E p \in Paths : Plug(p)
  \/ \E p \in Paths : Unplug(p)
  \/ \E i \in IfaceIds, ev \in FrameEvents : Emit(i, ev)

FrameSpec == FrameInit /\ [][FrameNext]_vars

---------------------------------------------------------------------------
(* What a returning call found *)

\* slot num was open when the call was made
PreOpen(num) == num >= 1 /\ num <= NDEV /\ pre.devh[num].fds_num # 0

\* the interface object slot num pointed to when the call was made
PreIface(num) == pre.ifaces[pre.devh[num].iface]

\* the returning call is an xwii_poll that went through the dispatch loop
IsDrain == last.op = "poll" /\ last.why \in {"key", "empty", "gone", "error"}

\* the events that were queued when the returning call was made
PreQueue == PreIface(last.num).queue

\* the queue of the session the xwii_poll call blocked in poll() waits on
WaitQueue == ifaces[devh[waiting].iface].queue

\* the interfaces of the sub-device each accessor reads
OwnIfaces ==
  [ accel |-> {"ACCEL"}, ir |-> {"IR"}, motion_plus |-> {"MOTION_PLUS"},
    nunchuk_accel |-> {"NUNCHUK"}, nunchuk_stick |-> {"NUNCHUK"},
    pro_stick |-> {"CLASSIC_CONTROLLER", "PRO_CONTROLLER"},
    board |-> {"BALANCE_BOARD"} ]

\* the event types that carry a sample of each accessor's channel
SampleTypes ==
  [ accel |-> {"ACCEL"}, ir |-> {"IR"}, motion_plus |-> {"MOTION_PLUS"},
    nunchuk_accel |-> {"NUNCHUK_MOVE"}, nunchuk_stick |-> {"NUNCHUK_MOVE"},
    pro_stick |-> {"CLASSIC_CONTROLLER_MOVE", "PRO_CONTROLLER_MOVE"},
    board |-> {"BALANCE_BOARD"} ]

\* the values of accessor a's channel in the sample of event ev
SampleOf(a, ev) ==
  CASE a = "accel" -> <<ev.abs[0].x, ev.abs[0].y, ev.abs[0].z>>
    [] a = "ir" -> <<ev.abs[0].x, ev.abs[0].y, ev.abs[1].x, ev.abs[1].y,
                     ev.abs[2].x, ev.abs[2].y, ev.abs[3].x, ev.abs[3].y>>
    [] a = "motion_plus" -> <<ev.abs[0].x, ev.abs[0].y, ev.abs[0].z>>
    [] a = "nunchuk_accel" -> <<ev.abs[1].x, ev.abs[1].y, ev.abs[1].z>>
    [] a = "nunchuk_stick" -> <<ev.abs[0].x, ev.abs[0].y>>
    [] a = "pro_stick" -> <<ev.abs[0].x, ev.abs[0].y,
                            ev.abs[1].x, ev.abs[1].y>>
    [] a = "board" -> <<ev.abs[0].x, ev.abs[1].x, ev.abs[2].x, ev.abs[3].x>>

\* the part of a slot's motion cache accessor a reads
Channel(a, s) ==
  CASE a = "accel" -> <<s.accel>>
    [] a = "ir" -> <<s.ir>>
    [] a = "motion_plus" -> <<s.motion>>
    [] a = "nunchuk_accel" -> <<s.nunchuk_accel>>
    [] a = "nunchuk_stick" -> <<s.nunchuk_stick>>
    [] a = "pro_stick" -> <<s.pro>>
    [] a = "board" -> <<s.board>>

\* the part of the payload of event ev that belongs to accessor a's channel
Sampled(a, ev) ==
  CASE a = "accel" -> <<ev.abs[0]>>
    [] a = "ir" -> <<[i \in 0..3 |-> ev.abs[i]]>>
    [] a = "motion_plus" -> <<ev.abs[0]>>
    [] a = "nunchuk_accel" -> <<ev.abs[1]>>
    [] a = "nunchuk_stick" -> <<ev.abs[0]>>
    [] a = "pro_stick" -> <<[i \in 0..1 |-> ev.abs[i]]>>
    [] a = "board" -> <<[i \in 0..3 |-> ev.abs[i]]>>

\* the first k events of queue q left the motion cache of slot s as the
\* cache of slot t: each channel holds the last sample of it among them,
\* or what it held in t when there is none
Applied(q, k, t, s) ==
  \A a \in Accessors :
    LET hits == {j \in 1..k : q[j].type \in SampleTypes[a]}
    IN IF hits = {}
       THEN Channel(a, s) = Channel(a, t)
       ELSE LET j == CHOOSE m \in hits : \A o \in hits : o <= m
            IN Channel(a, s) = Sampled(a, q[j])

\* the motion cache of a slot
Cache(s) ==
  <<s.accel, s.motion, s.nunchuk_accel, s.nunchuk_stick, s.ir, s.pro,
    s.board>>

---------------------------------------------------------------------------
(* Claims *)

\* C1: xwii_open(n) with n outside 1..NDEV, or above the number of devices
\* enumerated, returns 0 and leaves every slot of the session table (and
\* every interface object) as it was.
C1_OpenBadIndex ==
  (last.op = "open"
     /\ (last.num < 1 \/ last.num > NDEV \/ last.num > Len(devlist)))
  => (ret = Integer(0) /\ devh = pre.devh /\ ifaces = pre.ifaces)

\* C1 witness: an index above the device count is refused while a session
\* with a cached sample is open
C1_Witness ==
  /\ last.op = "open" /\ last.num \in 1..NDEV /\ last.num > Len(devlist)
  /\ ret = Integer(0)
  /\ \E m \in 1..NDEV : devh[m].fds_num = 1 /\ devh[m].accel # ZeroAbs

\* C2: xwii_open(n) on a slot that is already open returns 0 and leaves the
\* session's open flag, descriptor, connection and motion cache as they were.
C2_OpenAlreadyOpen ==
  (last.op = "open" /\ PreOpen(last.num))
  => /\ ret = Integer(0)
     /\ devh[last.num] = pre.devh[last.num]
     /\ ifaces[devh[last.num].iface] = PreIface(last.num)

\* C2 witness: the device is still enumerated, the session is open and
\* holds a cached sample and a queued event when it is opened again
C2_Witness ==
  /\ last.op = "open" /\ PreOpen(last.num) /\ last.num <= Len(devlist)
  /\ devh[last.num].accel # ZeroAbs
  /\ PreIface(last.num).queue # <<>>

\* C7: xwii_close returns nothing and never fails; on a handle that is not
\* open (closed, never opened, out of range) it changes no slot and
\* releases no interface object; on an open handle it releases the
\* session's interface object, marks the slot closed and touches nothing
\* else, so that a second close finds the slot closed and does nothing.
C7_CloseIdempotent ==
  last.op = "close" =>
    /\ ret = Nothing
    /\ IF PreOpen(last.num)
       THEN /\ ~IsOpen(last.num)
            /\ PreIface(last.num).live
            /\ ifaces[pre.devh[last.num].iface] = FreeIface
            /\ \A i \in IfaceIds \ {pre.devh[last.num].iface} :
                 ifaces[i] = pre.ifaces[i]
            /\ \A m \in (1..NDEV) \ {last.num} : devh[m] = pre.devh[m]
       ELSE devh = pre.devh /\ ifaces = pre.ifaces

\* C7 witness: a second close of a handle that xwii_close closed before
C7_Witness ==
  /\ last.op = "close" /\ last.num \in 1..NDEV /\ ~PreOpen(last.num)
  /\ pre.devh[last.num].fd > 0
  /\ ~pre.ifaces[pre.devh[last.num].iface].live

\* C3: a single xwii_poll returns at most one key event, a queued key event
\* at the head of the queue is the one returned, and the call that follows
\* the last queued event returns nil: no xwii_poll call is left waiting on a
\* session whose queue is empty.
C3_BurstDrains ==
  /\ (IsDrain /\ ret.tag = "table")
       => /\ last.consumed >= 1
          /\ PreQueue[last.consumed].type \in KeyTypes
          /\ \A j \in 1..(last.consumed - 1) : PreQueue[j].type \notin KeyTypes
  /\ (IsDrain /\ last.why # "error" /\ Head(PreQueue).type \in KeyTypes)
       => (ret.tag = "table" /\ last.consumed = 1)
  /\ waiting # 0 => WaitQueue # <<>>

\* C4: key events are neither lost nor reordered: a drain dispatches the
\* queued events in order from the head, leaves the rest queued in order,
\* dispatches no key event without returning it, and returns the code and
\* the state of the key event it stopped at.
C4_KeysInOrder ==
  IsDrain =>
    LET q == PreQueue
        k == last.consumed
    IN /\ k <= Len(q)
       /\ ifaces[pre.devh[last.num].iface].queue = SubSeq(q, k + 1, Len(q))
       /\ \A j \in 1..(k - 1) : q[j].type \notin KeyTypes
       /\ (k >= 1 /\ q[k].type \in KeyTypes)
            => (last.why = "key" /\ ret = Table(<<q[k].code, q[k].state>>))
       /\ ret.tag = "table" => (k >= 1 /\ q[k].type \in KeyTypes)

\* C4 witness: a drain passes a motion sample and returns the release of
\* button A queued behind it
C4_Witness ==
  /\ IsDrain /\ last.consumed = 2
  /\ PreQueue[1].type \in MoveTypes
  /\ PreQueue[2] = KeyEvent("KEY", 4, 0)
  /\ ret = Table(<<4, 0>>)

\* C5: polling does not block the host: every xwii_poll call that is waiting
\* in poll() on an open session eventually returns, also when no event is
\* pending and the device sends none.
C5_PollReturns == (waiting # 0) ~> (waiting = 0)

\* C6: a drain returns the device-gone signal exactly when the event it
\* stopped at is a GONE event; it then stops there with the rest of the
\* queue left alone and the slot marked closed, so that xwii_info on the
\* handle gives 0; an xwii_poll on a handle that is not open returns nil and
\* changes nothing, and no xwii_poll waits on a closed slot.
C6_GoneOnce ==
  /\ IsDrain =>
       LET q == PreQueue
           k == last.consumed
           gone == k >= 1 /\ q[k].type = "GONE"
       IN /\ \A j \in 1..(k - 1) : q[j].type # "GONE"
          /\ gone <=> ret = Integer(XWII_EVENT.GONE)
          /\ gone <=> last.why = "gone"
          /\ gone =>
               /\ ~IsOpen(last.num)
               /\ xwii_info(last.num) = Integer(0)
               /\ ifaces[pre.devh[last.num].iface].queue
                    = SubSeq(q, k + 1, Len(q))
          /\ ~gone => IsOpen(last.num)
  /\ (last.op = "poll" /\ ~PreOpen(last.num))
       => (ret = Nil /\ devh = pre.devh /\ ifaces = pre.ifaces)
  /\ waiting # 0 => IsOpen(waiting)

\* C6 witness: a drain stores a motion sample, meets the GONE event behind
\* it and returns the signal
C6_Witness ==
  /\ IsDrain /\ last.consumed = 2
  /\ PreQueue[1].type \in MoveTypes
  /\ PreQueue[2].type = "GONE"
  /\ ret = Integer(XWII_EVENT.GONE)
  /\ devh[last.num].fd = -1

\* C8: after xwii_close(n), a successful xwii_open(n) leaves every channel
\* of the slot's motion cache zero (accel, motion-plus, nunchuk accel and
\* stick, the four IR points, the two sticks, the four board values).
C8_ReopenZeroed ==
  (last.op = "open" /\ last.num \in 1..NDEV /\ ret = Integer(last.num))
  => Cache(devh[last.num]) = Cache(ZeroSlot)

\* C9: every motion accessor returns nil when the slot is closed or when no
\* interface of the accessor's own sub-device is opened for the session.
C9_AbsentIsNil ==
  \A num \in Nums, a \in Accessors :
    (~IsOpen(num) \/ OwnIfaces[a] \cap Opened(num) = {})
    => Access(a, num) = Nil

\* C10: after a drain, the accessor of each channel whose sub-device is
\* opened returns the values of the last sample of that channel the drain
\* dispatched, and a channel the drain dispatched no sample of keeps the
\* values it had.
C10_SampleReflected ==
  (IsDrain /\ IsOpen(last.num)) =>
    \A a \in Accessors :
      LET q == PreQueue
          hits == {j \in 1..last.consumed : q[j].type \in SampleTypes[a]}
      IN IF hits = {}
         THEN Channel(a, devh[last.num]) = Channel(a, pre.devh[last.num])
         ELSE LET j == CHOOSE m \in hits : \A o \in hits : o <= m
              IN OwnIfaces[a] \cap Opened(last.num) # {}
                   => Access(a, last.num) = Table(SampleOf(a, q[j]))

\* C11: xwii_set_leds on an open session writes the LEDs in order 1..4 and
\* stops at the first write error: the LEDs before the failing one have
\* their new value, the others keep their previous value; and a call that
\* stopped at a write error returns something that tells it from a call that
\* wrote all four LEDs (which returns nothing).
C11_LedFailureReported ==
  (last.op = "set_leds" /\ PreOpen(last.num)) =>
    LET p == PreIface(last.num).path
    IN /\ last.consumed \in 0..4
       /\ last.why = "fail" <=> last.consumed < 4
       /\ p # 0 =>
            /\ \A i \in 1..4 :
                 leds[p][i] = IF i <= last.consumed
                              THEN Bit(last.arg, i - 1)
                              ELSE pre.leds[p][i]
            /\ \A o \in Paths \ {p} : leds[o] = pre.leds[o]
       /\ p = 0 => leds = pre.leds
       /\ last.why = "fail" => ret # Nothing

\* C12: in every state an interface object is allocated (acquired and not
\* released) if and only if an open slot holds it: xwii_close and the GONE
\* case of xwii_poll both release the slot's object.
C12_ConnectionIffOpen ==
  \A i \in IfaceIds :
    ifaces[i].live
      <=> \E n \in 1..NDEV : devh[n].fds_num # 0 /\ devh[n].iface = i

\* C13: whatever the host opens, closes and polls and however the list of
\* enumerated devices changes between the calls, no two open slots hold
\* interface objects of the same device.
C13_OneSessionPerDevice ==
  \A m, n \in 1..NDEV :
    (m # n /\ IsOpen(m) /\ IsOpen(n) /\ ifaces[devh[m].iface].path # 0)
    => ifaces[devh[m].iface].path # ifaces[devh[n].iface].path

\* C14: once the host's object has handled a zero message (it is between
\* two messages with its clock not armed, which only the initial state and
\* the handling of a zero bring about), its handle is 0, the slot of its
\* device is closed and no xwii_poll is in progress.
C14_ZeroStops ==
  (HostIdle /\ ~clock) => (self_d = 0 /\ ~IsOpen(self_dev))

\* C15: every message on the first outlet is a key event: a list of exactly
\* two numbers, a key code and a key state 0 or 1.
C15_OutletKeysOnly ==
  \/ outlet = Nothing
  \/ /\ outlet.tag = "table"
     /\ Len(outlet.val) = 2
     /\ outlet.val[2] \in {0, 1}

\* C16: an interrupted wait (EINTR) is retried within the same xwii_poll
\* call, so no call returns because its wait was interrupted; a wait that
\* fails otherwise makes the call return nil with nothing dispatched.
C16_InterruptRetried ==
  /\ ~(last.op = "poll" /\ last.why = "eintr")
  /\ (last.op = "poll" /\ last.why = "waitfail")
       => (ret = Nil /\ devh = pre.devh /\ ifaces = pre.ifaces)

\* C17: a WATCH event does not end the drain: the call that dispatched one
\* ends at a key or GONE event behind it, at the end of the queue or at a
\* read error; it opens interfaces on the same interface object, closes
\* none and leaves the slot's descriptor alone; a drain of nothing but WATCH
\* and key events leaves the motion cache as it was.
C17_HotplugContinues ==
  (IsDrain /\ \E j \in 1..last.consumed : PreQueue[j].type = "WATCH") =>
    LET q == PreQueue
        k == last.consumed
        n == last.num
        f == ifaces[devh[n].iface]
    IN /\ q[k].type = "WATCH" => last.why \in {"empty", "error"}
       /\ last.why = "empty" => k = Len(q)
       /\ last.why = "key" => ret = Table(<<q[k].code, q[k].state>>)
       /\ devh[n].iface = pre.devh[n].iface
       /\ last.why # "gone"
            => (IsOpen(n) /\ devh[n].fd = pre.devh[n].fd
                          /\ devh[n].events = pre.devh[n].events)
       /\ f.live /\ f.path = PreIface(n).path /\ f.watch = PreIface(n).watch
       /\ PreIface(n).opened \subseteq f.opened
       /\ f.opened \subseteq PreIface(n).opened \cup Available(f)
       /\ (\A j \in 1..k : q[j].type \in KeyTypes \cup {"WATCH"})
            => Cache(devh[n]) = Cache(pre.devh[n])

\* C17 witness: a drain meets the WATCH event of a plugged Nunchuk, opens
\* the new interface and returns the key event queued behind it
C17_Witness ==
  /\ IsDrain /\ last.consumed = 2
  /\ PreQueue[1].type = "WATCH"
  /\ PreQueue[2].type \in KeyTypes
  /\ ret.tag = "table"
  /\ "NUNCHUK" \in Opened(last.num) \ PreIface(last.num).opened

\* C18: when xwii_poll returns a key event, the motion samples dispatched
\* before it in that call are in the motion cache, and the events queued
\* behind it are still queued, none of them applied.
C18_CacheBeforeKey ==
  (IsDrain /\ last.why = "key") =>
    LET q == PreQueue
        k == last.consumed
    IN /\ Applied(q, k - 1, pre.devh[last.num], devh[last.num])
       /\ ifaces[devh[last.num].iface].queue = SubSeq(q, k + 1, Len(q))

\* C18 witness: the call returns a key event after it stored the IR sample
\* queued before it
C18_Witness ==
  /\ IsDrain /\ last.why = "key" /\ last.consumed = 2
  /\ PreQueue[1].type = "IR"
  /\ devh[last.num].ir = [i \in 0..3 |-> PreQueue[1].abs[i]]
  /\ devh[last.num].ir # pre.devh[last.num].ir

\* C19: a wait failure or a read error makes xwii_poll return nil and leaves
\* the session open: open flag, descriptor and interface object are as
\* before, the samples dispatched before the error are in the cache, and
\* the events not dispatched are still queued for a later call.
C19_ErrorKeepsSession ==
  (last.op = "poll" /\ last.why \in {"waitfail", "error"}) =>
    LET q == PreQueue
        k == last.consumed
        n == last.num
    IN /\ ret = Nil
       /\ IsOpen(n)
       /\ devh[n].fds_num = pre.devh[n].fds_num
       /\ devh[n].fd = pre.devh[n].fd
       /\ devh[n].iface = pre.devh[n].iface
       /\ ifaces[devh[n].iface].live
       /\ ifaces[devh[n].iface].queue = SubSeq(q, k + 1, Len(q))
       /\ Applied(q, k, pre.devh[n], devh[n])
       /\ last.why = "waitfail" => (devh = pre.devh /\ ifaces = pre.ifaces)

\* C19 witness: a read error after an accelerometer sample was stored, with
\* an event left in the queue
C19_Witness ==
  /\ last.op = "poll" /\ last.why = "error" /\ last.consumed = 1
  /\ PreQueue[1].type = "ACCEL"
  /\ devh[last.num].accel = PreQueue[1].abs[0]
  /\ Len(PreQueue) = 2
  /\ IsOpen(last.num)

\* C20: xwii_poll on a handle that is closed or out of range returns nil at
\* once: it does not wait, dispatches nothing and changes no slot; only an
\* open slot is ever waited on.
C20_ClosedPollNil ==
  /\ (last.op = "poll" /\ ~PreOpen(last.num))
       => /\ last.why = "closed" /\ last.consumed = 0
          /\ ret = Nil
          /\ waiting = 0
          /\ devh = pre.devh
          /\ ifaces = pre.ifaces
  /\ (last.op = "poll" /\ last.why = "closed") => ~PreOpen(last.num)
  /\ waiting # 0 => (waiting \in 1..NDEV /\ devh[waiting].fds_num # 0)

\* C20 witness: a poll on a handle above NDEV while a session is open with
\* an event pending
C20_Witness ==
  /\ last.op = "poll" /\ last.num > NDEV /\ ret = Nil
  /\ \E m \in 1..NDEV :
       devh[m].fds_num # 0 /\ ifaces[devh[m].iface].queue # <<>>

\* C21: an xwii_open that fails on a slot that is not open (the device is
\* not found, or xwii_iface_new or xwii_iface_open fails) returns 0, leaves
\* the slot closed with its descriptor and motion cache as they were, and
\* leaves no interface object allocated that was not allocated before, so
\* that the slot and the objects a later xwii_open needs are still free.
C21_OpenFailureUnwinds ==
  (last.op = "open" /\ last.num \in 1..NDEV /\ ~PreOpen(last.num)
     /\ ret # Integer(last.num)) =>
    /\ ret = Integer(0)
    /\ ~IsOpen(last.num)
    /\ ifaces = pre.ifaces
    /\ devh[last.num].fd = pre.devh[last.num].fd
    /\ Cache(devh[last.num]) = Cache(pre.devh[last.num])
    /\ \A m \in (1..NDEV) \ {last.num} : devh[m] = pre.devh[m]

\* C21 witness: xwii_iface_open failed on a new interface object (the slot
\* points to it) and the object is not allocated
C21_Witness ==
  /\ last.op = "open" /\ last.num \in 1..Len(devlist) /\ ~PreOpen(last.num)
  /\ ret = Integer(0)
  /\ devh[last.num].iface # pre.devh[last.num].iface
  /\ ~ifaces[devh[last.num].iface].live

\* C22: xwii_get_leds on an open session returns either nil or the mask of
\* all four LEDs (bit i-1 for LED i): it returns nil exactly when a read
\* failed, it reads no LED behind the one whose read failed, and it changes
\* no LED.
C22_LedsAllOrNothing ==
  (last.op = "get_leds" /\ PreOpen(last.num)) =>
    LET p == PreIface(last.num).path
    IN /\ leds = pre.leds
       /\ last.consumed \in 1..4
       /\ last.why = "fail" <=> ret = Nil
       /\ last.why # "fail" =>
            /\ last.consumed = 4
            /\ p # 0
            /\ ret = Integer((IF leds[p][1] THEN 1 ELSE 0)
                             + (IF leds[p][2] THEN 2 ELSE 0)
                             + (IF leds[p][3] THEN 4 ELSE 0)
                             + (IF leds[p][4] THEN 8 ELSE 0))

\* C22 witness: the read of the third LED fails while the first LED is lit
C22_Witness ==
  /\ last.op = "get_leds" /\ PreOpen(last.num)
  /\ last.why = "fail" /\ last.consumed = 3
  /\ PreIface(last.num).path # 0
  /\ leds[PreIface(last.num).path][1]
  /\ ret = Nil

\* C23: a call with handle n leaves every other slot of the session table
\* as it was (open flag, descriptor, interface pointer, motion cache), and
\* leaves the interface object of every other open slot as it was.
C23_OtherSlotsUntouched ==
  last.op \in {"open", "close", "poll"} =>
    \A m \in (1..NDEV) \ {last.num} :
      /\ devh[m] = pre.devh[m]
      /\ devh[m].fds_num # 0
           => ifaces[devh[m].iface] = pre.ifaces[devh[m].iface]

\* C23 witness: a drain on one slot while another slot is open with a sample
\* in its motion cache
C23_Witness ==
  /\ IsDrain /\ last.consumed >= 1
  /\ \E m \in (1..NDEV) \ {last.num} :
       devh[m].fds_num # 0 /\ devh[m].accel # ZeroAbs

\* C24: when xwii_poll returns nil because the queue is empty, each channel
\* of the motion cache holds the last sample of it dispatched in the
\* session, or zero when there is none.  By induction over the calls of a
\* session: a session starts with every channel zero, and a drain that ends
\* at the empty queue has dispatched the whole queue and leaves in each
\* channel the last sample of it in the queue, or what the channel held.
C24_CacheFreshest ==
  /\ (last.op = "open" /\ last.num \in 1..NDEV /\ ret = Integer(last.num))
       => \A a \in Accessors :
            Channel(a, devh[last.num]) = Channel(a, ZeroSlot)
  /\ (IsDrain /\ last.why = "empty")
       => /\ last.consumed = Len(PreQueue)
          /\ Applied(PreQueue, Len(PreQueue), pre.devh[last.num],
                     devh[last.num])

\* C25: what xwii_board returns and what the host's "board" message sends
\* are, when not nil, the four weights of the slot's balance-board cache.
C25_BoardOwnCache ==
  /\ \A num \in Nums :
       \/ xwii_board(num) = Nil
       \/ xwii_board(num) = Table(<<devh[num].board[0].x, devh[num].board[1].x,
                                    devh[num].board[2].x, devh[num].board[3].x>>)
  /\ \/ in_1_board = Nil
     \/ in_1_board = Table(<<devh[self_d].board[0].x, devh[self_d].board[1].x,
                             devh[self_d].board[2].x, devh[self_d].board[3].x>>)

\* C26: while the slot of the host object's handle is closed by a GONE event
\* (the device-gone signal was returned and the object has not opened the
\* device again), the object issues no xwii_poll on the handle and its
\* clock is not armed when it is between two messages.
C26_GoneStopsPolling ==
  (self_d \in 1..NDEV /\ devh[self_d].fds_num = 0 /\ devh[self_d].fd = -1)
  => /\ ~(last.op = "poll" /\ last.num = self_d /\ last.why = "closed")
     /\ HostIdle => ~clock

\* C27: an xwii_open(n) that returns n finds slot n never opened or closed by
\* xwii_close: it does not find a slot that a GONE event closed and that
\* xwii_close has not been called on while it was open.
C27_ReuseAfterClose ==
  (last.op = "open" /\ last.num \in 1..NDEV /\ ret = Integer(last.num))
  => pre.devh[last.num].fd # -1

====
